---- MODULE Spec2Model ----
(***************************************************************************)
(* Request-execution pipeline of apisdk (apisdk/src/executor/execute.rs).  *)
(*                                                                         *)
(* One call of one entry point (_send, _send_json, _send_form,             *)
(* _send_multipart, _send_raw) is modelled as a state machine.  The        *)
(* synchronous code between two await points is one action; the await      *)
(* points (mock.handle, req.send, res.json / res.text) are where the       *)
(* environment chooses the outcome.                                        *)
(***************************************************************************)
EXTENDS Integers, Sequences, FiniteSets, TLC

VARIABLES
    pc,               \* position of the call: start, await_mock, await_send, await_body, done
    call,             \* the entry point called and its arguments
    req,              \* the RequestBuilder: extensions, payload, buildability
    logger,           \* the Logger the pipeline uses for its own events
    require_headers,  \* the flag returned by RequestConfigurator::build
    mock_ret,         \* what MockServer::handle returned
    wire,             \* the response the network delivered
    content_type,     \* the MimeType the negotiation selected
    body_read,        \* what reading the response body yielded
    result,           \* what the entry point returned to the caller
    events,           \* calls made by the pipeline, in program order
    REQ_CONFIG,       \* the per-thread cell holding a RequestConfigurator
    tasks,            \* the tasks multiplexed on the thread, each in an api method
    calls,            \* how many api method calls were started on the thread
    takes             \* which call took which call's Configurator from the cell

\* the state of one pipeline call
pipeline_vars == <<pc, call, req, logger, require_headers, mock_ret, wire,
                   content_type, body_read, result, events>>

\* the state of the thread's configuration cell and of the tasks using it
cell_vars == <<REQ_CONFIG, tasks, calls, takes>>

vars == <<pipeline_vars, cell_vars>>

(***************************************************************************)
(* Bounds                                                                  *)
(***************************************************************************)
\* longest list of response headers besides content-type
MaxHeaders == 2

\* the headers of a response in the termination check
LiveHeaders == 1

\* tasks multiplexed on one thread
NumTasks == 2

\* api method calls started on the thread
MaxCalls == 3

(***************************************************************************)
(* Absent values                                                           *)
(***************************************************************************)
Absent == "<absent>"

NoLogger == [target |-> "", level |-> Absent, request_id |-> "", payload |-> Absent]

NoCall == [entry |-> Absent]

NoForm == [is_multipart |-> FALSE, multipart |-> FALSE, form |-> FALSE]

NoReq == [request_id |-> Absent, log_config |-> Absent, mock |-> Absent,
          logger |-> NoLogger, build_ok |-> TRUE, body |-> Absent]

NoMime == [mime |-> Absent, raw |-> ""]

NoError == [type |-> "NoError"]

NoBody == [variant |-> Absent]

NoResponse == [status |-> 0, headers |-> <<>>, body |-> Absent]

NoReturn == [kind |-> "none"]

NoHeader == [name |-> "", value |-> "", visible |-> FALSE]

NoResult == [kind |-> "none"]

NoRead == [ok |-> FALSE, text |-> Absent]

(***************************************************************************)
(* JSON values (serde_json::Value) and their text form                     *)
(***************************************************************************)
JNull == [kind |-> "null"]

JNum(n) == [kind |-> "number", n |-> n]

JStr(s) == [kind |-> "string", s |-> s]

JArr(items) == [kind |-> "array", items |-> items]

JObj(fields) == [kind |-> "object", fields |-> fields]

\* the documents the model exchanges
JsonValues ==
    { JNull, JNum(1), JStr("x"), JArr(<<JNum(1)>>), JObj(<<>>),
      JObj("a" :> JNum(1)),
      JObj(("a" :> JNum(1)) @@ ("__headers__" :> JStr("old"))) }

\* the keys of an object in the order serde_json's map (a BTreeMap) keeps them
OrderedKeys(f) ==
    LET Rank(k) == CASE k = "__headers__" -> 1
                     [] k = "a" -> 2
                     [] k = "content-type" -> 3
                     [] k = "host" -> 4
                     [] OTHER -> 5
        RECURSIVE Order(_)
        Order(S) == IF S = {} THEN <<>>
                    ELSE LET k == CHOOSE c \in S : \A d \in S : Rank(c) <= Rank(d)
                         IN <<k>> \o Order(S \ {k})
    IN Order(DOMAIN f)

RECURSIVE JsonToString(_)
\* Value::to_string: the compact serialisation
JsonToString(v) ==
    CASE v.kind = "null" -> "null"
      [] v.kind = "number" -> ToString(v.n)
      [] v.kind = "string" -> "\"" \o v.s \o "\""
      [] v.kind = "array" ->
            LET RECURSIVE Items(_)
                Items(i) == IF i > Len(v.items) THEN ""
                            ELSE (IF i > 1 THEN "," ELSE "")
                                 \o JsonToString(v.items[i]) \o Items(i + 1)
            IN "[" \o Items(1) \o "]"
      [] v.kind = "object" ->
            LET ks == OrderedKeys(v.fields)
                RECURSIVE Fields(_)
                Fields(i) == IF i > Len(ks) THEN ""
                             ELSE (IF i > 1 THEN "," ELSE "")
                                  \o "\"" \o ks[i] \o "\":"
                                  \o JsonToString(v.fields[ks[i]]) \o Fields(i + 1)
            IN "{" \o Fields(1) \o "}"

JsonError == [kind |-> "error"]

\* serde_json's parser on the body texts of the model: the value, or an error
JsonParse(text) ==
    CASE text = "null" -> JNull
      [] text = "1" -> JNum(1)
      [] text = "\"x\"" -> JStr("x")
      [] text = "[1]" -> JArr(<<JNum(1)>>)
      [] text = "{}" -> JObj(<<>>)
      [] text = "{\"a\":1}" -> JObj("a" :> JNum(1))
      [] text = "{ \"a\" : 1 }" -> JObj("a" :> JNum(1))
      [] text = "{\"__headers__\":\"old\",\"a\":1}" ->
            JObj(("a" :> JNum(1)) @@ ("__headers__" :> JStr("old")))
      [] OTHER -> JsonError

\* the body texts a server sends
BodyTexts == { "{\"a\":1}", "{ \"a\" : 1 }", "{\"__headers__\":\"old\",\"a\":1}",
               "[1]", "1", "<a/>", "hello", "" }

(***************************************************************************)
(* MimeType                                                                *)
(***************************************************************************)
MimeJson == [mime |-> "Json", raw |-> ""]

MimeXml == [mime |-> "Xml", raw |-> ""]

MimeText == [mime |-> "Text", raw |-> ""]

MimeOther(raw) == [mime |-> "Other", raw |-> raw]

\* str::to_lowercase on the content types of the model
ToLower(text) ==
    CASE text = "Application/JSON; charset=utf-8" -> "application/json; charset=utf-8"
      [] text = "TEXT/XML" -> "text/xml"
      [] OTHER -> text

\* the media type without its parameters
Essence(text) ==
    CASE text = "application/json; charset=utf-8" -> "application/json"
      [] OTHER -> text

\* MimeType::from(&str): case-insensitive, parameters ignored, anything
\* unrecognised keeps the raw string
MimeFrom(text) ==
    LET e == Essence(ToLower(text))
    IN CASE e = "application/json" -> MimeJson
         [] e = "text/xml" -> MimeXml
         [] e = "text/plain" -> MimeText
         [] OTHER -> MimeOther(text)

\* Display of MimeType
MimeToString(m) ==
    CASE m.mime = "Json" -> "application/json"
      [] m.mime = "Xml" -> "text/xml"
      [] m.mime = "Text" -> "text/plain"
      [] OTHER -> m.raw

(***************************************************************************)
(* Responses                                                               *)
(***************************************************************************)
CONTENT_TYPE == "content-type"

\* a header: name, value, and whether HeaderValue::to_str succeeds on the
\* value (it holds visible ASCII only)
Header(name, value, visible) == [name |-> name, value |-> value, visible |-> visible]

\* the content-type headers a server sends
ContentTypeHeaders ==
    { Header(CONTENT_TYPE, "application/json", TRUE),
      Header(CONTENT_TYPE, "Application/JSON; charset=utf-8", TRUE),
      Header(CONTENT_TYPE, "TEXT/XML", TRUE),
      Header(CONTENT_TYPE, "text/plain", TRUE),
      Header(CONTENT_TYPE, "application/octet-stream", TRUE),
      Header(CONTENT_TYPE, "<bytes>", FALSE) }

\* the other headers a server sends
OtherHeaders ==
    { Header("host", "localhost", TRUE),
      Header("host", "example.org", TRUE),
      Header("x-bin", "<bytes>", FALSE) }

RECURSIVE SeqsUpTo(_, _)
SeqsUpTo(S, n) ==
    IF n = 0 THEN { <<>> }
    ELSE LET shorter == SeqsUpTo(S, n - 1)
         IN shorter \cup { Append(q, x) : q \in shorter, x \in S }

\* the header lists of the model: optionally a content-type, then others
HeaderLists ==
    { ct \o rest : ct \in { <<>> } \cup { <<h>> : h \in ContentTypeHeaders },
                   rest \in SeqsUpTo(OtherHeaders, MaxHeaders) }

\* the status codes of the model, around the edges of 4xx and 5xx
StatusCodes == { 200, 399, 400, 404, 500, 599 }

\* StatusCode::is_client_error
is_client_error(status) == status >= 400 /\ status < 500

\* is_server_error with the upper edge of the range lost
is_server_error_narrow(status) == status >= 500 /\ status < 599

\* StatusCode::is_server_error
is_server_error(status) == status >= 500 /\ status < 600

\* StatusCode::canonical_reason
canonical_reason(status) ==
    CASE status = 200 -> "OK"
      [] status = 400 -> "Bad Request"
      [] status = 404 -> "Not Found"
      [] status = 500 -> "Internal Server Error"
      [] OTHER -> Absent

\* Display of StatusCode: the number, a space, the canonical reason
status_to_string(status) ==
    ToString(status) \o " "
    \o (IF canonical_reason(status) = Absent THEN "<unknown status code>"
        ELSE canonical_reason(status))

\* a response as the network delivers it: the body is read later
Responses == { [status |-> s, headers |-> hs, body |-> "<stream>"] :
               s \in StatusCodes, hs \in HeaderLists }

\* HeaderMap::get: the first value stored under the name
HeaderGet(headers, name) ==
    LET idx == { i \in DOMAIN headers : headers[i].name = name }
    IN IF idx = {} THEN NoHeader
       ELSE headers[CHOOSE i \in idx : \A j \in idx : i <= j]

(***************************************************************************)
(* ApiError and ResponseBody                                               *)
(***************************************************************************)
BuildRequest == [type |-> "BuildRequest"]

MultipartForm == [type |-> "MultipartForm"]

Network == [type |-> "Network"]

HttpClientStatus(code, reason) ==
    [type |-> "HttpClientStatus", code |-> code, reason |-> reason]

HttpServerStatus(code, reason) ==
    [type |-> "HttpServerStatus", code |-> code, reason |-> reason]

DecodeResponse(mime, message) ==
    [type |-> "DecodeResponse", content_type |-> mime, message |-> message]

UnsupportedContentType(mime) ==
    [type |-> "UnsupportedContentType", content_type |-> mime]

Middleware(inner) == [type |-> "Middleware", inner |-> inner]

\* an anyhow::Error
Anyhow(message) == [type |-> "anyhow", message |-> message]

BodyJson(json) == [variant |-> "Json", json |-> json]

BodyXml(text) == [variant |-> "Xml", text |-> text]

BodyText(text) == [variant |-> "Text", text |-> text]

Ok(value) == [kind |-> "ok", value |-> value]

Err(e) == [kind |-> "err", err |-> e]

\* what a mock handler may return
MockBodies == { BodyJson(v) : v \in JsonValues } \cup { BodyXml("<a/>"), BodyText("hello") }

MockReturns == { Ok(b) : b \in MockBodies } \cup { Err(Anyhow("mock failed")) }

(***************************************************************************)
(* Events: the calls the pipeline makes                                    *)
(***************************************************************************)
Ev(op) == [op |-> op, err |-> NoError]

LogError(e) == [op |-> "log_error", err |-> e]

Count(evs, op) == Cardinality({ i \in DOMAIN evs : evs[i].op = op })

Decoders == { "parse_as_json", "parse_as_xml", "parse_as_text" }

DecoderCalls(evs) == Cardinality({ i \in DOMAIN evs : evs[i].op \in Decoders })

(***************************************************************************)
(* Requests, Configurators, Loggers                                        *)
(***************************************************************************)
\* the id RequestTraceIdMiddleware generates
GeneratedId == "generated-id"

\* the requests a caller hands in: extensions attached by earlier layers
Requests ==
    { [request_id |-> id, log_config |-> lc, mock |-> m, logger |-> NoLogger,
       build_ok |-> ok, body |-> Absent] :
      id \in { Absent, "rid-1" }, lc \in { Absent, "Off", "Trace" },
      m \in { Absent, "MyMock" }, ok \in BOOLEAN }

\* RequestConfigurator::new
Configurators ==
    { [log_target |-> "api", log_filter |-> f, require_headers |-> rh] :
      f \in { Absent, "Info" }, rh \in BOOLEAN }

\* the FormLike payloads: what is_multipart, get_multipart and get_form answer
FormLikes == [is_multipart : BOOLEAN, multipart : BOOLEAN, form : BOOLEAN]

\* RequestTraceIdMiddleware::inject_extension: attach a correlation id
\* unless the request carries one
inject_extension(r) ==
    IF r.request_id = Absent THEN [r EXCEPT !.request_id = GeneratedId] ELSE r

\* Logger::new
Logger_new(target, level, request_id) ==
    [target |-> target, level |-> level, request_id |-> request_id, payload |-> Absent]

\* Logger::is_enabled
is_enabled(l) == l.level # "Off"

\* Logger::with_json, with_form, with_multipart: a payload snapshot
with_payload(l, kind) == [l EXCEPT !.payload = kind]

\* an attachment that displaces the extensions already on the request
with_extension_exclusive(r, l) ==
    [r EXCEPT !.logger = l, !.request_id = Absent, !.log_config = Absent]

\* RequestBuilder::with_extension(logger)
with_extension(r, l) == [r EXCEPT !.logger = l]

\* build with the Configurator's log_filter ahead of the LogConfig extension
build_filter_first(c, r) ==
    LET log_filter == IF c.log_filter # Absent THEN c.log_filter
                      ELSE IF r.log_config # Absent THEN r.log_config
                      ELSE "Debug"
        request_id == IF r.request_id # Absent THEN r.request_id ELSE ""
    IN [logger |-> Logger_new(c.log_target, log_filter, request_id),
        require_headers |-> c.require_headers]

\* build without the lookup of the RequestId extension
build_default_id(c, r) ==
    LET log_filter == IF r.log_config # Absent THEN r.log_config
                      ELSE IF c.log_filter # Absent THEN c.log_filter
                      ELSE "Debug"
    IN [logger |-> Logger_new(c.log_target, log_filter, ""),
        require_headers |-> c.require_headers]

\* RequestConfigurator::build
build(c, r) ==
    LET log_filter == IF r.log_config # Absent THEN r.log_config
                      ELSE IF c.log_filter # Absent THEN c.log_filter
                      ELSE "Debug"
        request_id == IF r.request_id # Absent THEN r.request_id ELSE ""
    IN [logger |-> Logger_new(c.log_target, log_filter, request_id),
        require_headers |-> c.require_headers]

(***************************************************************************)
(* The pipelines                                                           *)
(***************************************************************************)
ParseEntries == { "_send", "_send_json", "_send_form", "_send_multipart" }

\* send_and_parse where a request that cannot be built falls through to the
\* network instead of returning BuildRequest
send_and_parse_fallthrough(r, l, rh, evs) ==
    /\ req' = r
    /\ logger' = l
    /\ require_headers' = rh
    /\ IF r.mock # Absent /\ r.build_ok
       THEN /\ pc' = "await_mock"
            /\ result' = NoResult
            /\ events' = evs \o <<Ev("mock_check"), Ev("build_request"),
                                  Ev("log_mock_request_and_response"),
                                  Ev("mock_handle")>>
       ELSE /\ pc' = "await_send"
            /\ result' = NoResult
            /\ events' = evs \o <<Ev("mock_check"), Ev("send")>>
    /\ UNCHANGED <<mock_ret, wire, content_type, body_read>>

\* send_and_parse up to its first await: the mock check
send_and_parse(r, l, rh, evs) ==
    /\ req' = r
    /\ logger' = l
    /\ require_headers' = rh
    /\ IF r.mock # Absent
       THEN IF ~r.build_ok
            THEN /\ pc' = "done"
                 /\ result' = Err(BuildRequest)
                 /\ events' = evs \o <<Ev("mock_check"), Ev("build_request")>>
            ELSE /\ pc' = "await_mock"
                 /\ result' = NoResult
                 /\ events' = evs \o <<Ev("mock_check"), Ev("build_request"),
                                       Ev("log_mock_request_and_response"),
                                       Ev("mock_handle")>>
       ELSE /\ pc' = "await_send"
            /\ result' = NoResult
            /\ events' = evs \o <<Ev("mock_check"), Ev("send")>>
    /\ UNCHANGED <<mock_ret, wire, content_type, body_read>>

\* send_and_unparse checking the mock and dispatching ahead of the entry
\* point's preparation of the request
send_and_unparse_early(r, l, evs) ==
    /\ req' = r
    /\ logger' = l
    /\ IF r.mock # Absent
       THEN IF ~r.build_ok
            THEN /\ pc' = "done"
                 /\ result' = Err(BuildRequest)
                 /\ events' = <<Ev("mock_check"), Ev("build_request")>> \o evs
            ELSE /\ pc' = "await_mock"
                 /\ result' = NoResult
                 /\ events' = <<Ev("mock_check"), Ev("build_request"),
                                Ev("log_mock_request_and_response"),
                                Ev("mock_handle")>> \o evs
       ELSE /\ pc' = "await_send"
            /\ result' = NoResult
            /\ events' = <<Ev("mock_check"), Ev("send")>> \o evs
    /\ UNCHANGED <<require_headers, mock_ret, wire, content_type, body_read>>

\* send_and_unparse up to its first await: the mock check
send_and_unparse(r, l, evs) ==
    /\ req' = r
    /\ logger' = l
    /\ IF r.mock # Absent
       THEN IF ~r.build_ok
            THEN /\ pc' = "done"
                 /\ result' = Err(BuildRequest)
                 /\ events' = evs \o <<Ev("mock_check"), Ev("build_request")>>
            ELSE /\ pc' = "await_mock"
                 /\ result' = NoResult
                 /\ events' = evs \o <<Ev("mock_check"), Ev("build_request"),
                                       Ev("log_mock_request_and_response"),
                                       Ev("mock_handle")>>
       ELSE /\ pc' = "await_send"
            /\ result' = NoResult
            /\ events' = evs \o <<Ev("mock_check"), Ev("send")>>
    /\ UNCHANGED <<require_headers, mock_ret, wire, content_type, body_read>>

\* the attachment of a Logger that lost its correlation id
attach_unidentified(r, l, annotated) ==
    IF is_enabled(l) THEN with_extension(r, [annotated EXCEPT !.request_id = ""]) ELSE r

\* the Logger an entry point attaches to the request when logging is enabled
attach(r, l, annotated) == IF is_enabled(l) THEN with_extension(r, annotated) ELSE r

_send ==
    /\ pc = "start"
    /\ UNCHANGED cell_vars
    /\ \E r0 \in Requests, c \in Configurators :
          LET r1 == inject_extension(r0)
              b == build(c, r1)
              r2 == attach(r1, b.logger, b.logger)
          IN /\ call' = [entry |-> "_send", req |-> r0, config |-> c, form |-> NoForm]
             /\ send_and_parse(r2, b.logger, b.require_headers,
                               <<Ev("inject_extension"), Ev("build")>>)

_send_json ==
    /\ pc = "start"
    /\ UNCHANGED cell_vars
    /\ \E r0 \in Requests, c \in Configurators :
          LET r1 == [inject_extension(r0) EXCEPT !.body = "json"]
              b == build(c, r1)
              r2 == attach(r1, b.logger, with_payload(b.logger, "json"))
          IN /\ call' = [entry |-> "_send_json", req |-> r0, config |-> c, form |-> NoForm]
             /\ send_and_parse(r2, b.logger, b.require_headers,
                               <<Ev("inject_extension"), Ev("build")>>)

_send_form ==
    /\ pc = "start"
    /\ UNCHANGED cell_vars
    /\ \E r0 \in Requests, c \in Configurators, form \in FormLikes :
          LET r1 == inject_extension(r0)
              r2 == IF form.is_multipart
                    THEN IF form.multipart THEN [r1 EXCEPT !.body = "multipart"] ELSE r1
                    ELSE IF form.form THEN [r1 EXCEPT !.body = "form"] ELSE r1
              b == build(c, r2)
              r3 == attach(r2, b.logger,
                           with_payload(b.logger,
                                        IF form.is_multipart THEN "multipart" ELSE "form"))
          IN /\ call' = [entry |-> "_send_form", req |-> r0, config |-> c, form |-> form]
             /\ send_and_parse(r3, b.logger, b.require_headers,
                               <<Ev("inject_extension"), Ev("build")>>)

_send_multipart ==
    /\ pc = "start"
    /\ UNCHANGED cell_vars
    /\ \E r0 \in Requests, c \in Configurators, form \in FormLikes :
          LET r1 == inject_extension(r0)
          IN /\ call' = [entry |-> "_send_multipart", req |-> r0, config |-> c,
                         form |-> form]
             /\ IF ~form.multipart
                THEN /\ pc' = "done"
                     /\ req' = r1
                     /\ result' = Err(MultipartForm)
                     /\ events' = <<Ev("inject_extension")>>
                     /\ UNCHANGED <<logger, require_headers, mock_ret, wire, content_type,
                                    body_read>>
                ELSE LET r2 == [r1 EXCEPT !.body = "multipart"]
                         b == build(c, r2)
                         r3 == attach(r2, b.logger, with_payload(b.logger, "multipart"))
                     IN send_and_parse(r3, b.logger, b.require_headers,
                                       <<Ev("inject_extension"), Ev("build")>>)

_send_raw ==
    /\ pc = "start"
    /\ UNCHANGED cell_vars
    /\ \E r0 \in Requests, c \in Configurators :
          LET r1 == inject_extension(r0)
              b == build(c, r1)
              r2 == attach(r1, b.logger, b.logger)
          IN /\ call' = [entry |-> "_send_raw", req |-> r0, config |-> c, form |-> NoForm]
             /\ send_and_unparse(r2, b.logger,
                                 <<Ev("inject_extension"), Ev("build")>>)

(***************************************************************************)
(* After the mock handler returned                                         *)
(***************************************************************************)
\* the match folding headers into a mock's Json body as parse_as_json does
\* for a response
mock_handled_injecting(ret, evs) ==
    IF ret.kind = "ok"
    THEN [result |-> IF /\ require_headers
                        /\ ret.value.variant = "Json"
                        /\ ret.value.json.kind = "object"
                     THEN Ok(BodyJson(JObj(("__headers__" :> JObj(<<>>))
                                           @@ ret.value.json.fields)))
                     ELSE Ok(ret.value),
          events |-> evs \o <<Ev("log_mock_response_body")>>]
    ELSE [result |-> Err(Middleware(ret.err)),
          events |-> evs \o <<LogError(ret.err)>>]

\* send_and_parse, the match on mock.handle(req).await
mock_handled(ret, evs) ==
    IF ret.kind = "ok"
    THEN [result |-> Ok(ret.value),
          events |-> evs \o <<Ev("log_mock_response_body")>>]
    ELSE [result |-> Err(Middleware(ret.err)),
          events |-> evs \o <<LogError(ret.err)>>]

\* HeaderValue accepts the text (no control bytes)
HeaderValueOk(text) == text # "<bytes>"

\* the pair with an Xml body announced as text
mock_body_parts_xml_as_text(body) ==
    CASE body.variant = "Json" -> [content_type |-> MimeJson, text |-> JsonToString(body.json)]
      [] body.variant = "Xml" -> [content_type |-> MimeText, text |-> body.text]
      [] body.variant = "Text" -> [content_type |-> MimeText, text |-> body.text]

\* the (content type, text) pair send_and_unparse derives from a mock body
mock_body_parts(body) ==
    CASE body.variant = "Json" -> [content_type |-> MimeJson, text |-> JsonToString(body.json)]
      [] body.variant = "Xml" -> [content_type |-> MimeXml, text |-> body.text]
      [] body.variant = "Text" -> [content_type |-> MimeText, text |-> body.text]

\* the match returning the handler's error as it is, not wrapped
mock_handled_raw_unwrapped(ret, evs) ==
    IF ret.kind = "ok"
    THEN LET parts == mock_body_parts(ret.value)
             value == MimeToString(parts.content_type)
         IN [result |-> Ok([status |-> 200,
                            headers |-> <<Header(CONTENT_TYPE, value, TRUE)>>,
                            body |-> parts.text]),
             events |-> evs \o <<Ev("log_mock_response_body")>>]
    ELSE [result |-> Err(ret.err),
          events |-> evs \o <<LogError(ret.err)>>]

\* send_and_unparse, the match on mock.handle(req).await
mock_handled_raw(ret, evs) ==
    IF ret.kind = "ok"
    THEN LET parts == mock_body_parts(ret.value)
             value == MimeToString(parts.content_type)
         IN [result |-> IF HeaderValueOk(value)
                        THEN Ok([status |-> 200,
                                 headers |-> <<Header(CONTENT_TYPE, value, TRUE)>>,
                                 body |-> parts.text])
                        ELSE Err(Middleware(Anyhow("Failed to build response"))),
             events |-> evs \o <<Ev("log_mock_response_body")>>]
    ELSE [result |-> Err(Middleware(ret.err)),
          events |-> evs \o <<LogError(ret.err)>>]

send_and_parse_mock_handled ==
    /\ pc = "await_mock"
    /\ UNCHANGED cell_vars
    /\ call.entry \in ParseEntries
    /\ \E ret \in MockReturns :
          LET out == mock_handled(ret, events)
          IN /\ mock_ret' = ret
             /\ result' = out.result
             /\ events' = out.events
    /\ pc' = "done"
    /\ UNCHANGED <<call, req, logger, require_headers, wire, content_type, body_read>>

send_and_unparse_mock_handled ==
    /\ pc = "await_mock"
    /\ UNCHANGED cell_vars
    /\ call.entry = "_send_raw"
    /\ \E ret \in MockReturns :
          LET out == mock_handled_raw(ret, events)
          IN /\ mock_ret' = ret
             /\ result' = out.result
             /\ events' = out.events
    /\ pc' = "done"
    /\ UNCHANGED <<call, req, logger, require_headers, wire, content_type, body_read>>

(***************************************************************************)
(* After the network send returned                                         *)
(***************************************************************************)
\* what req.send().await may yield: a response, or a transport error; a
\* request that cannot be built never yields a response
SendOutcomes(r) ==
    { Err(Network) } \cup (IF r.build_ok THEN { Ok(res) : res \in Responses } ELSE {})

\* send_and_parse, "Check status code": the error for the status, if any
check_status(status) ==
    IF is_client_error(status) \/ is_server_error(status)
    THEN IF is_client_error(status)
         THEN HttpClientStatus(status, status_to_string(status))
         ELSE HttpServerStatus(status, status_to_string(status))
    ELSE NoError

\* the negotiation without the default: a missing or unreadable header is
\* an unknown content type
negotiate_strict(headers) ==
    LET h == HeaderGet(headers, CONTENT_TYPE)
    IN IF h # NoHeader /\ h.visible THEN MimeFrom(h.value) ELSE MimeOther("")

\* send_and_parse, "Check content-type": Text when the header is missing or
\* not readable as a string
negotiate(headers) ==
    LET h == HeaderGet(headers, CONTENT_TYPE)
    IN IF h # NoHeader /\ h.visible THEN MimeFrom(h.value) ELSE MimeText

\* the match with an unrecognised content type decoded as text
decoder_for_fallback(mime) ==
    CASE mime.mime = "Json" -> "parse_as_json"
      [] mime.mime = "Xml" -> "parse_as_xml"
      [] OTHER -> "parse_as_text"

\* send_and_parse, the match on the content type: the decoder, if any
decoder_for(mime) ==
    CASE mime.mime = "Json" -> "parse_as_json"
      [] mime.mime = "Xml" -> "parse_as_xml"
      [] mime.mime = "Text" -> "parse_as_text"
      [] OTHER -> Absent

\* send_and_parse sending the request again after a transport error
received_resend(out, evs) ==
    IF out.kind = "err"
    THEN [pc |-> "await_send", result |-> NoResult, content_type |-> NoMime,
          events |-> evs \o <<Ev("send")>>]
    ELSE LET e == check_status(out.value.status)
             mime == negotiate(out.value.headers)
         IN IF e # NoError
            THEN [pc |-> "done", result |-> Err(e), content_type |-> NoMime,
                  events |-> evs \o <<Ev("check_status"), LogError(e)>>]
            ELSE IF decoder_for(mime) # Absent
            THEN [pc |-> "await_body", result |-> NoResult, content_type |-> mime,
                  events |-> evs \o <<Ev("check_status"), Ev("check_content_type"),
                                      Ev(decoder_for(mime))>>]
            ELSE [pc |-> "done", result |-> Err(UnsupportedContentType(mime)),
                  content_type |-> mime,
                  events |-> evs \o <<Ev("check_status"), Ev("check_content_type")>>]

\* send_and_parse going on to the content type after a status error
received_lenient(out, evs) ==
    IF out.kind = "err"
    THEN [pc |-> "done", result |-> Err(out.err), content_type |-> NoMime,
          events |-> evs]
    ELSE LET e == check_status(out.value.status)
             mime == negotiate(out.value.headers)
             noted == IF e # NoError THEN <<Ev("check_status"), LogError(e)>>
                      ELSE <<Ev("check_status")>>
         IN IF decoder_for(mime) # Absent
            THEN [pc |-> "await_body", result |-> NoResult, content_type |-> mime,
                  events |-> evs \o noted \o <<Ev("check_content_type"),
                                               Ev(decoder_for(mime))>>]
            ELSE [pc |-> "done", result |-> Err(UnsupportedContentType(mime)),
                  content_type |-> mime,
                  events |-> evs \o noted \o <<Ev("check_content_type")>>]

\* send_and_parse from the return of req.send() to the next await or return
received(out, evs) ==
    IF out.kind = "err"
    THEN [pc |-> "done", result |-> Err(out.err), content_type |-> NoMime,
          events |-> evs]
    ELSE LET e == check_status(out.value.status)
             mime == negotiate(out.value.headers)
         IN IF e # NoError
            THEN [pc |-> "done", result |-> Err(e), content_type |-> NoMime,
                  events |-> evs \o <<Ev("check_status"), LogError(e)>>]
            ELSE IF decoder_for(mime) # Absent
            THEN [pc |-> "await_body", result |-> NoResult, content_type |-> mime,
                  events |-> evs \o <<Ev("check_status"), Ev("check_content_type"),
                                      Ev(decoder_for(mime))>>]
            ELSE [pc |-> "done", result |-> Err(UnsupportedContentType(mime)),
                  content_type |-> mime,
                  events |-> evs \o <<Ev("check_status"), Ev("check_content_type")>>]

send_and_parse_sent ==
    /\ pc = "await_send"
    /\ UNCHANGED cell_vars
    /\ call.entry \in ParseEntries
    /\ \E out \in SendOutcomes(req) :
          LET next == received(out, events)
          IN /\ wire' = IF out.kind = "ok" THEN out.value ELSE NoResponse
             /\ pc' = next.pc
             /\ result' = next.result
             /\ content_type' = next.content_type
             /\ events' = next.events
    /\ UNCHANGED <<call, req, logger, require_headers, mock_ret, body_read>>

\* send_and_unparse classifying the status as send_and_parse does
received_raw_checked(out) ==
    IF out.kind = "err" THEN Err(out.err)
    ELSE IF check_status(out.value.status) # NoError
         THEN Err(check_status(out.value.status))
         ELSE Ok(out.value)

\* send_and_unparse after req.send(): the response goes back as it came
received_raw(out) == IF out.kind = "err" THEN Err(out.err) ELSE Ok(out.value)

send_and_unparse_sent ==
    /\ pc = "await_send"
    /\ UNCHANGED cell_vars
    /\ call.entry = "_send_raw"
    /\ \E out \in SendOutcomes(req) :
          /\ wire' = IF out.kind = "ok" THEN out.value ELSE NoResponse
          /\ result' = received_raw(out)
    /\ pc' = "done"
    /\ UNCHANGED <<call, req, logger, require_headers, mock_ret, content_type, body_read,
                   events>>

(***************************************************************************)
(* Decoders                                                                *)
(***************************************************************************)
\* what reading the body may yield: the text, or a transport failure
BodyReads == { [ok |-> TRUE, text |-> t] : t \in BodyTexts } \cup { [ok |-> FALSE, text |-> ""] }

\* the extraction without the to_str check: every header is inserted
extract_headers_unfiltered(headers, rh) ==
    LET RECURSIVE Insert(_, _)
        Insert(i, m) ==
            IF i > Len(headers) THEN m
            ELSE Insert(i + 1, (headers[i].name :> headers[i].value) @@ m)
    IN IF rh THEN [some |-> TRUE, map |-> Insert(1, <<>>)]
       ELSE [some |-> FALSE, map |-> <<>>]

\* parse_as_json, "Extract HTTP headers from response": the map of the
\* headers whose value reads as a string; a later value replaces an earlier one
extract_headers(headers, rh) ==
    LET RECURSIVE Insert(_, _)
        Insert(i, m) ==
            IF i > Len(headers) THEN m
            ELSE Insert(i + 1,
                        IF headers[i].visible
                        THEN (headers[i].name :> headers[i].value) @@ m
                        ELSE m)
    IN IF rh THEN [some |-> TRUE, map |-> Insert(1, <<>>)]
       ELSE [some |-> FALSE, map |-> <<>>]

\* serde_json::to_value of the header map
headers_to_value(m) == JObj([k \in DOMAIN m |-> JStr(m[k])])

\* parse_as_json, "Inject headers as `__headers__` field into payload"
inject_headers(json, hs) ==
    IF hs.some /\ json.kind = "object"
    THEN JObj(("__headers__" :> headers_to_value(hs.map)) @@ json.fields)
    ELSE json

\* parse_as_json returning a decode error without logging it
json_decoded_silent(read, res, mime, rh, evs) ==
    LET hs == extract_headers(res.headers, rh)
        json == IF read.ok THEN JsonParse(read.text) ELSE JsonError
    IN IF json = JsonError
       THEN [result |-> Err(DecodeResponse(mime, IF read.ok THEN "syntax error"
                                                 ELSE "read error")),
             events |-> evs]
       ELSE [result |-> Ok(BodyJson(inject_headers(json, hs))),
             events |-> evs \o <<Ev("log_response_json")>>]

\* parse_as_json from the return of res.json() on
json_decoded(read, res, mime, rh, evs) ==
    LET hs == extract_headers(res.headers, rh)
        json == IF read.ok THEN JsonParse(read.text) ELSE JsonError
    IN IF json = JsonError
       THEN LET e == DecodeResponse(mime, IF read.ok THEN "syntax error" ELSE "read error")
            IN [result |-> Err(e), events |-> evs \o <<LogError(e)>>]
       ELSE [result |-> Ok(BodyJson(inject_headers(json, hs))),
             events |-> evs \o <<Ev("log_response_json")>>]

\* parse_as_xml and parse_as_text from the return of res.text() on
text_decoded(read, mime, evs) ==
    IF ~read.ok
    THEN LET e == DecodeResponse(mime, "read error")
         IN [result |-> Err(e), events |-> evs \o <<LogError(e)>>]
    ELSE IF mime.mime = "Xml"
         THEN [result |-> Ok(BodyXml(read.text)),
               events |-> evs \o <<Ev("log_response_xml")>>]
         ELSE [result |-> Ok(BodyText(read.text)),
               events |-> evs \o <<Ev("log_response_text")>>]

parse_as_json ==
    /\ pc = "await_body"
    /\ UNCHANGED cell_vars
    /\ content_type.mime = "Json"
    /\ \E read \in BodyReads :
          LET out == json_decoded(read, wire, content_type, require_headers, events)
          IN /\ body_read' = read
             /\ result' = out.result
             /\ events' = out.events
    /\ pc' = "done"
    /\ UNCHANGED <<call, req, logger, require_headers, mock_ret, wire, content_type>>

parse_as_xml ==
    /\ pc = "await_body"
    /\ UNCHANGED cell_vars
    /\ content_type.mime = "Xml"
    /\ \E read \in BodyReads :
          LET out == text_decoded(read, content_type, events)
          IN /\ body_read' = read
             /\ result' = out.result
             /\ events' = out.events
    /\ pc' = "done"
    /\ UNCHANGED <<call, req, logger, require_headers, mock_ret, wire, content_type>>

parse_as_text ==
    /\ pc = "await_body"
    /\ UNCHANGED cell_vars
    /\ content_type.mime = "Text"
    /\ \E read \in BodyReads :
          LET out == text_decoded(read, content_type, events)
          IN /\ body_read' = read
             /\ result' = out.result
             /\ events' = out.events
    /\ pc' = "done"
    /\ UNCHANGED <<call, req, logger, require_headers, mock_ret, wire, content_type>>

(***************************************************************************)
(* The per-thread configuration cell and the api methods that use it       *)
(*                                                                         *)
(* An api method has the shape of TheApi::touch: it builds the request     *)
(* (`self.get(path).await?`) and hands it to a send macro                  *)
(* (`send!(req).await`), which takes the Configurator out of REQ_CONFIG    *)
(* when its async block is first polled.  Tasks on one thread interleave   *)
(* at the awaits.  The pipeline a macro enters is the one modelled above;  *)
(* here only its end is seen.                                              *)
(***************************************************************************)
Tasks == 1 .. NumTasks

\* RequestConfigurator::default(), the content of a fresh or emptied cell;
\* owner is the call the Configurator was written for (0: none)
DefaultConfig ==
    [log_target |-> "", log_filter |-> Absent, require_headers |-> FALSE, owner |-> 0]

\* the Configurator the api method's prologue writes for call id
MethodConfig(id) ==
    [log_target |-> "TheApi::touch", log_filter |-> Absent, require_headers |-> FALSE,
     owner |-> id]

NotTaken == [log_target |-> Absent, log_filter |-> Absent, require_headers |-> FALSE,
             owner |-> 0]

IdleTask == [pc |-> "idle", id |-> 0, route |-> Absent, macro |-> Absent,
             taken |-> NotTaken, result |-> Absent]

\* the send macros generated by build_macro_overrides
SendMacros == { "send", "send_json", "send_form", "send_multipart" }

\* what the router answers while the request is built
RouteOutcomes == { Ok("endpoint"), Err("ServiceDiscovery") }

RouteError(e) == [type |-> "Route", inner |-> e]

\* ApiCore::build_request: a request for the endpoint, or the router's error
build_request(route) ==
    IF route.kind = "err" THEN Err(RouteError(route.err)) ELSE Ok(route.value)

\* LocalKey<RefCell<_>>::take without the reset: the cell keeps its content
take_borrowed(cell) == [value |-> cell, cell |-> cell]

\* Self::REQ_CONFIG.take(): hand out the content, leave the default behind
take(cell) == [value |-> cell, cell |-> DefaultConfig]

\* touch with the error of the request building ignored
touch_unchecked(t, built, macro) ==
    LET got == take(REQ_CONFIG)
    IN /\ REQ_CONFIG' = got.cell
       /\ takes' = takes \cup { [by |-> tasks[t].id, owner |-> got.value.owner] }
       /\ tasks' = [tasks EXCEPT ![t] =
                       [@ EXCEPT !.pc = "sending",
                                 !.route = built.kind,
                                 !.macro = macro,
                                 !.taken = got.value]]

\* TheApi::touch from the return of self.get(path): `?` ends the call on an
\* error; otherwise the send macro runs up to the pipeline's first await
touch(t, built, macro) ==
    IF built.kind = "err"
    THEN /\ tasks' = [tasks EXCEPT ![t] =
                         [@ EXCEPT !.pc = "done", !.route = "err", !.result = "err"]]
         /\ UNCHANGED <<REQ_CONFIG, takes>>
    ELSE LET got == take(REQ_CONFIG)
         IN /\ REQ_CONFIG' = got.cell
            /\ takes' = takes \cup { [by |-> tasks[t].id, owner |-> got.value.owner] }
            /\ tasks' = [tasks EXCEPT ![t] =
                            [@ EXCEPT !.pc = "sending",
                                      !.route = "ok",
                                      !.macro = macro,
                                      !.taken = got.value]]

\* a task enters an api method: the prologue writes the cell, then the
\* method waits for the request to be built
api_method ==
    /\ calls < MaxCalls
    /\ \E t \in Tasks :
          /\ tasks[t].pc \in { "idle", "done" }
          /\ calls' = calls + 1
          /\ REQ_CONFIG' = MethodConfig(calls + 1)
          /\ tasks' = [tasks EXCEPT ![t] = [IdleTask EXCEPT !.pc = "building",
                                                            !.id = calls + 1]]
    /\ UNCHANGED takes
    /\ UNCHANGED pipeline_vars

\* the request building of a task returns
request ==
    /\ \E t \in Tasks, route \in RouteOutcomes, macro \in SendMacros :
          /\ tasks[t].pc = "building"
          /\ touch(t, build_request(route), macro)
    /\ UNCHANGED calls
    /\ UNCHANGED pipeline_vars

\* the pipeline a task's send macro entered returns
send_returns ==
    /\ \E t \in Tasks, outcome \in { "ok", "err" } :
          /\ tasks[t].pc = "sending"
          /\ tasks' = [tasks EXCEPT ![t] = [@ EXCEPT !.pc = "done", !.result = outcome]]
    /\ UNCHANGED <<REQ_CONFIG, calls, takes>>
    /\ UNCHANGED pipeline_vars

\* a task is dropped while it waits
cancel ==
    /\ \E t \in Tasks :
          /\ tasks[t].pc \in { "building", "sending" }
          /\ tasks' = [tasks EXCEPT ![t] = [@ EXCEPT !.pc = "done",
                                                     !.result = "cancelled"]]
    /\ UNCHANGED <<REQ_CONFIG, calls, takes>>
    /\ UNCHANGED pipeline_vars

(***************************************************************************)
(* Specification                                                           *)
(***************************************************************************)
Init ==
    /\ pc = "start"
    /\ REQ_CONFIG = DefaultConfig
    /\ tasks = [t \in Tasks |-> IdleTask]
    /\ calls = 0
    /\ takes = {}
    /\ call = NoCall
    /\ req = NoReq
    /\ logger = NoLogger
    /\ require_headers = FALSE
    /\ mock_ret = NoReturn
    /\ wire = NoResponse
    /\ content_type = NoMime
    /\ body_read = NoRead
    /\ result = NoResult
    /\ events = <<>>

Next ==
    \/ _send
    \/ _send_json
    \/ _send_form
    \/ _send_multipart
    \/ _send_raw
    \/ send_and_parse_mock_handled
    \/ send_and_unparse_mock_handled
    \/ send_and_parse_sent
    \/ send_and_unparse_sent
    \/ parse_as_json
    \/ parse_as_xml
    \/ parse_as_text

Spec == Init /\ [][Next]_vars

CellNext ==
    \/ api_method
    \/ request
    \/ send_returns
    \/ cancel

\* the steps that end an await of the pipeline: the mock handler, the
\* network send and the body read return
Completes ==
    \/ send_and_parse_mock_handled
    \/ send_and_unparse_mock_handled
    \/ send_and_parse_sent
    \/ send_and_unparse_sent
    \/ parse_as_json
    \/ parse_as_xml
    \/ parse_as_text

\* the environment of the termination check: a caller that attaches no
\* logging or tracing extension and sets no log_filter, and a server that
\* sends at most LiveHeaders headers; every branch of the pipeline remains
Narrow ==
    /\ call.req.request_id = Absent
    /\ call.req.log_config = Absent
    /\ call.config.log_filter = Absent
    /\ Len(wire.headers) <= LiveHeaders

LiveNext == Next /\ Narrow'

\* a call whose awaits all complete in the end
LiveSpec == Init /\ [][LiveNext]_vars /\ WF_vars(Completes /\ Narrow')

\* the tasks of one thread around the configuration cell
CellSpec == Init /\ [][CellNext]_vars

(***************************************************************************)
(* Properties                                                              *)
(***************************************************************************)
Done == pc = "done"

Parsing == call.entry \in ParseEntries

Raw == call.entry = "_send_raw"

Received == wire # NoResponse

ErrorStatus == Received /\ wire.status >= 400 /\ wire.status <= 599

\* the content-type header of the delivered response, if it reads as a string
ReadableContentType ==
    LET h == HeaderGet(wire.headers, CONTENT_TYPE)
    IN IF h # NoHeader /\ h.visible THEN h.value ELSE Absent

\* C1: a response with a status in [400,599] makes send_and_parse return
\* HttpClientStatus (4xx) or HttpServerStatus (5xx), and no decoder is
\* invoked for the call, whatever the content type.
C1_StatusErrorNeverDecoded ==
    (Parsing /\ ErrorStatus) =>
        /\ Done
        /\ result.kind = "err"
        /\ result.err.type = (IF wire.status <= 499 THEN "HttpClientStatus"
                              ELSE "HttpServerStatus")
        /\ DecoderCalls(events) = 0

C1_Witness ==
    /\ Parsing /\ Done
    /\ wire.status = 599
    /\ ReadableContentType = "application/json"
    /\ result.kind = "err"

\* C2: a request carrying a mock never triggers a network send, and when the
\* handler succeeds send_and_parse returns exactly the handler's body.
C2_MockBypassesNetwork ==
    (call.entry # Absent /\ req.mock # Absent) =>
        /\ Count(events, "send") = 0
        /\ ~Received
        /\ pc # "await_send"
        /\ (Parsing /\ mock_ret.kind = "ok") => (Done /\ result = Ok(mock_ret.value))

C2_Witness ==
    /\ Parsing /\ Done
    /\ req.mock # Absent
    /\ mock_ret.kind = "ok"
    /\ mock_ret.value.variant = "Json"
    /\ result.kind = "ok"

\* C3: on a non-error status, a Json, Xml or Text content type invokes its
\* own decoder exactly once and no other decoder; any other content type
\* returns UnsupportedContentType carrying the raw content type, and no
\* decoder runs.
C3_DecoderDispatch ==
    (Parsing /\ Received /\ ~ErrorStatus /\ ReadableContentType # Absent) =>
        LET raw == ReadableContentType
            mime == MimeFrom(raw)
        IN IF mime.mime \in { "Json", "Xml", "Text" }
           THEN /\ DecoderCalls(events) = 1
                /\ mime.mime = "Json" => Count(events, "parse_as_json") = 1
                /\ mime.mime = "Xml" => Count(events, "parse_as_xml") = 1
                /\ mime.mime = "Text" => Count(events, "parse_as_text") = 1
                /\ (Done /\ result.kind = "ok") => result.value.variant = mime.mime
           ELSE /\ Done
                /\ DecoderCalls(events) = 0
                /\ result = Err(UnsupportedContentType(MimeOther(raw)))

C3_Witness ==
    /\ Parsing /\ Done
    /\ wire.status = 200
    /\ ReadableContentType = "application/octet-stream"
    /\ result.kind = "err"
    /\ result.err.type = "UnsupportedContentType"

HeaderNames(headers) == { headers[i].name : i \in DOMAIN headers }

ReadableNames(headers) ==
    { headers[i].name : i \in { j \in DOMAIN headers : headers[j].visible } }

\* the last value under the name that reads as a string
LastReadable(headers, name) ==
    LET idx == { i \in DOMAIN headers : headers[i].name = name /\ headers[i].visible }
    IN headers[CHOOSE i \in idx : \A j \in idx : j <= i].value

JsonDecoded == Parsing /\ Done /\ content_type.mime = "Json" /\ result.kind = "ok"

\* C4 as stated: with require_headers and an object body the `__headers__`
\* field has exactly the response header names as keys, each with a value of
\* that header; otherwise the parsed value is returned unchanged.
C4_AllHeaderNames ==
    JsonDecoded =>
        LET parsed == JsonParse(body_read.text)
            out == result.value.json
        IN IF require_headers /\ parsed.kind = "object"
           THEN /\ out.kind = "object"
                /\ "__headers__" \in DOMAIN out.fields
                /\ LET hs == out.fields["__headers__"]
                   IN /\ hs.kind = "object"
                      /\ DOMAIN hs.fields = HeaderNames(wire.headers)
                      /\ \A k \in DOMAIN hs.fields :
                            \E i \in DOMAIN wire.headers :
                               /\ wire.headers[i].name = k
                               /\ hs.fields[k] = JStr(wire.headers[i].value)
           ELSE out = parsed

\* C4 (amended): with require_headers and an object body the result is the
\* parsed object with its `__headers__` field set to an object whose keys
\* are the names of the response headers whose value reads as a string,
\* each mapped to the last such value; headers with unreadable values are
\* left out.  With require_headers=false, or a non-object body, the parsed
\* value is returned unchanged.
C4_ReadableHeaderNames ==
    JsonDecoded =>
        LET parsed == JsonParse(body_read.text)
            out == result.value.json
        IN IF require_headers /\ parsed.kind = "object"
           THEN /\ out.kind = "object"
                /\ DOMAIN out.fields = DOMAIN parsed.fields \cup { "__headers__" }
                /\ \A k \in DOMAIN parsed.fields \ { "__headers__" } :
                      out.fields[k] = parsed.fields[k]
                /\ LET hs == out.fields["__headers__"]
                   IN /\ hs.kind = "object"
                      /\ DOMAIN hs.fields = ReadableNames(wire.headers)
                      /\ \A k \in DOMAIN hs.fields :
                            hs.fields[k] = JStr(LastReadable(wire.headers, k))
           ELSE out = parsed

C4_Witness ==
    /\ JsonDecoded
    /\ require_headers
    /\ result.value.json.kind = "object"
    /\ "x-bin" \in HeaderNames(wire.headers)
    /\ "host" \in DOMAIN result.value.json.fields["__headers__"].fields

LogErrorCalls(evs) == { i \in DOMAIN evs : evs[i].op = "log_error" }

Failed == Done /\ result.kind = "err"

\* C5 as stated: every error the pipeline returns was logged exactly once.
C5_EveryErrorLogged == Failed => Cardinality(LogErrorCalls(events)) = 1

\* C5 (amended): HttpClientStatus, HttpServerStatus and DecodeResponse
\* errors and the failure of a mock handler are passed to log_error exactly
\* once, as the last step of the call, and then returned; BuildRequest,
\* MultipartForm, Network and UnsupportedContentType errors are returned
\* without a log_error call.  An error that was logged is the one returned,
\* and no step is repeated.
C5_LoggedErrorKinds ==
    /\ Failed =>
          LET e == result.err
              logged == LogErrorCalls(events)
          IN /\ e.type \in { "HttpClientStatus", "HttpServerStatus", "DecodeResponse" } =>
                   /\ logged = { Len(events) }
                   /\ events[Len(events)].err = e
             /\ e.type = "Middleware" =>
                   /\ logged = { Len(events) }
                   /\ events[Len(events)].err = e.inner
             /\ e.type \in { "BuildRequest", "MultipartForm", "Network",
                             "UnsupportedContentType" } => logged = {}
             /\ e.type \in { "HttpClientStatus", "HttpServerStatus", "DecodeResponse",
                             "Middleware", "BuildRequest", "MultipartForm", "Network",
                             "UnsupportedContentType" }
    /\ LogErrorCalls(events) # {} => Failed
    /\ Count(events, "send") <= 1
    /\ Count(events, "mock_handle") <= 1

C5_Witness ==
    /\ Failed
    /\ result.err.type = "DecodeResponse"
    /\ Cardinality(LogErrorCalls(events)) = 1

\* C6: a 4xx response yields HttpClientStatus(code, reason) and a 5xx
\* response HttpServerStatus(code, reason) with the status's reason phrase:
\* 404 yields HttpClientStatus(404, "Not Found").
C6_ReasonPhrase ==
    (Parsing /\ Done /\ ErrorStatus /\ canonical_reason(wire.status) # Absent) =>
        result = Err(IF wire.status <= 499
                     THEN HttpClientStatus(wire.status, canonical_reason(wire.status))
                     ELSE HttpServerStatus(wire.status, canonical_reason(wire.status)))

\* C7: when the mock handler fails, the error is logged and returned wrapped
\* as Middleware, with no network send, no status classification and no
\* decoder, in send_and_parse and in send_and_unparse alike.
C7_MockFailure ==
    mock_ret.kind = "err" =>
        /\ Done
        /\ result = Err(Middleware(mock_ret.err))
        /\ LogErrorCalls(events) = { Len(events) }
        /\ events[Len(events)].err = mock_ret.err
        /\ Count(events, "send") = 0
        /\ ~Received
        /\ Count(events, "check_status") = 0
        /\ Count(events, "check_content_type") = 0
        /\ DecoderCalls(events) = 0

C7_Witness ==
    /\ Raw /\ Done
    /\ mock_ret.kind = "err"
    /\ result.kind = "err"
    /\ result.err.type = "Middleware"

Built == Count(events, "build") = 1

\* C8: a request without a correlation id gets a generated one attached and
\* the Logger carries it; a request with one keeps it and the Logger carries
\* exactly that id.
C8_CorrelationId ==
    call.entry # Absent =>
        /\ call.req.request_id = Absent => req.request_id = GeneratedId
        /\ call.req.request_id # Absent => req.request_id = call.req.request_id
        /\ req.request_id # Absent
        /\ Built =>
              /\ logger.request_id = req.request_id
              /\ req.logger # NoLogger => req.logger.request_id = req.request_id

C8_Witness ==
    /\ call.entry = "_send_json"
    /\ call.req.request_id = Absent
    /\ Built
    /\ logger.request_id = GeneratedId
    /\ req.logger # NoLogger

\* C9: _send_raw neither classifies the status nor decodes: a network
\* response of any status and content type comes back as Ok with the
\* response as delivered, whatever the Configurator's require_headers.
C9_RawUntouched ==
    (Raw /\ Received) =>
        /\ Done
        /\ result = Ok(wire)
        /\ Count(events, "check_status") = 0
        /\ Count(events, "check_content_type") = 0
        /\ DecoderCalls(events) = 0
        /\ LogErrorCalls(events) = {}

C9_Witness ==
    /\ Raw /\ Done
    /\ wire.status = 500
    /\ call.config.require_headers
    /\ ReadableContentType = "application/octet-stream"
    /\ result.kind = "ok"

\* decoding a response by its content type, without header folding
DecodePlain(res) ==
    LET mime == negotiate(res.headers)
    IN CASE mime.mime = "Json" -> BodyJson(JsonParse(res.body))
         [] mime.mime = "Xml" -> BodyXml(res.body)
         [] mime.mime = "Text" -> BodyText(res.body)
         [] OTHER -> NoBody

\* C10: with a mock both pipelines skip the network and succeed or fail
\* together (BuildRequest when the request cannot be built, Middleware when
\* the handler fails); on success send_and_parse returns the mock body and
\* send_and_unparse a response whose content type is the body's variant and
\* whose text is the body's content, so that decoding it (without header
\* folding) gives the mock body back.
C10_MockInBothPipelines ==
    (call.entry # Absent /\ req.mock # Absent /\ (Parsing => Built)) =>
        /\ Count(events, "send") = 0
        /\ ~req.build_ok => (Done /\ result = Err(BuildRequest))
        /\ mock_ret.kind = "err" => (Done /\ result = Err(Middleware(mock_ret.err)))
        /\ mock_ret.kind = "ok" =>
              /\ Done
              /\ result.kind = "ok"
              /\ Parsing => result.value = mock_ret.value
              /\ Raw =>
                    LET body == mock_ret.value
                        res == result.value
                        ct == HeaderGet(res.headers, CONTENT_TYPE)
                    IN /\ ct # NoHeader
                       /\ MimeFrom(ct.value).mime = body.variant
                       /\ body.variant = "Json" => res.body = JsonToString(body.json)
                       /\ body.variant \in { "Xml", "Text" } => res.body = body.text
                       /\ DecodePlain(res) = body

C10_Witness ==
    /\ Raw /\ Done
    /\ mock_ret.kind = "ok"
    /\ mock_ret.value.variant = "Json"
    /\ mock_ret.value.json.kind = "object"
    /\ result.kind = "ok"

\* the payload claims multipart shape but yields no multipart body
MultipartMissing ==
    /\ \/ call.entry = "_send_multipart"
       \/ call.entry = "_send_form" /\ call.form.is_multipart
    /\ ~call.form.multipart

\* C11: a payload that claims multipart shape but cannot produce a multipart
\* body makes the call fail with MultipartForm, and nothing is sent, in
\* _send_form as in _send_multipart.
C11_MultipartFormError ==
    MultipartMissing =>
        /\ Done
        /\ result = Err(MultipartForm)
        /\ Count(events, "send") = 0
        /\ Count(events, "mock_handle") = 0

(***************************************************************************)
(* Order of the steps, and what an error ends                              *)
(***************************************************************************)
\* every b among the events has an a before it
Before(a, b) ==
    \A j \in DOMAIN events :
        events[j].op = b => \E i \in 1 .. (j - 1) : events[i].op = a

\* C15: in every entry point the trace id is injected before the mock check
\* and the Logger is built before the mock handler is called and before the
\* request is sent; in send_and_parse the status is classified before the
\* content type is looked at.
C15_StepOrder ==
    /\ Before("inject_extension", "mock_check")
    /\ Before("inject_extension", "build")
    /\ Before("build", "mock_handle")
    /\ Before("build", "send")
    /\ Before("check_status", "check_content_type")
    /\ pc \in { "await_mock", "await_send" } =>
          /\ logger # NoLogger
          /\ req.request_id # Absent

C15_Witness ==
    /\ Done
    /\ Parsing
    /\ Count(events, "send") = 1
    /\ Count(events, "check_content_type") = 1

StatusErrors == { "HttpClientStatus", "HttpServerStatus" }

\* the events after position i
After(i) == { events[j].op : j \in (i + 1) .. Len(events) }

\* C16: an error ends the call.  BuildRequest and MultipartForm are not
\* followed by a mock call or a send, Network is not followed by the status
\* classification, a status error is not followed by the content-type
\* dispatch or a decoder, and a call reports at most one error, so never a
\* status error and a decode error together.
C16_ErrorEndsCall ==
    /\ result.kind = "err" => Done
    /\ \A i \in LogErrorCalls(events) :
          /\ After(i) = {}
          /\ Done
          /\ result.kind = "err"
          /\ events[i].err.type \in StatusErrors =>
                /\ result = Err(events[i].err)
                /\ Count(events, "check_content_type") = 0
                /\ DecoderCalls(events) = 0
    /\ Cardinality(LogErrorCalls(events)) <= 1
    /\ result.kind = "err" /\ result.err.type \in { "BuildRequest", "MultipartForm" } =>
          /\ Count(events, "mock_handle") = 0
          /\ Count(events, "send") = 0
    /\ result.kind = "err" /\ result.err.type = "Network" =>
          /\ Count(events, "check_status") = 0
          /\ Count(events, "check_content_type") = 0
          /\ DecoderCalls(events) = 0
    /\ result.kind = "err" /\ result.err.type \in StatusErrors =>
          /\ Count(events, "check_content_type") = 0
          /\ DecoderCalls(events) = 0
    /\ result.kind = "err" /\ result.err.type = "DecodeResponse" =>
          \A i \in DOMAIN events : events[i].err.type \notin StatusErrors

C16_Witness ==
    /\ Done
    /\ result.kind = "err"
    /\ result.err.type \in StatusErrors
    /\ Count(events, "send") = 1

(***************************************************************************)
(* The Logger of a call                                                    *)
(***************************************************************************)
\* the level the stated precedence gives for the call's arguments
ExpectedLevel ==
    IF call.req.log_config # Absent THEN call.req.log_config
    ELSE IF call.config.log_filter # Absent THEN call.config.log_filter
    ELSE "Debug"

\* C17: build takes the Logger's level from the LogConfig extension when
\* the request carries one, whatever the Configurator's log_filter is;
\* otherwise from the Configurator's log_filter; and Debug when both are
\* absent.  The flag it returns is the Configurator's require_headers.
C17_LevelPrecedence ==
    Built =>
        /\ logger.level = ExpectedLevel
        /\ build(call.config, call.req).logger.level = ExpectedLevel
        /\ build(call.config, call.req).require_headers = call.config.require_headers
        /\ Parsing => require_headers = call.config.require_headers

C17_Witness ==
    /\ Built
    /\ Parsing
    /\ call.req.log_config = "Trace"
    /\ call.config.log_filter = "Info"
    /\ logger.level = "Trace"
    /\ require_headers

\* the correlation id the call's request carries after the injection
ExpectedId ==
    IF call.req.request_id # Absent THEN call.req.request_id ELSE GeneratedId

\* the Logger of the call is the one built from the call's arguments, and
\* the Logger attached to the request agrees with it
LoggerKept ==
    /\ logger.target = call.config.log_target
    /\ logger.level = ExpectedLevel
    /\ logger.request_id = ExpectedId
    /\ logger.payload = Absent
    /\ IF is_enabled(logger)
       THEN /\ req.logger.target = logger.target
            /\ req.logger.level = logger.level
            /\ req.logger.request_id = logger.request_id
       ELSE req.logger = NoLogger

\* C18 as stated: every call builds exactly one Logger from its
\* Configurator, the Logger's target, level and correlation id stay as
\* built, and the Logger attached to the request has the same three.
C18_ExactlyOneLogger ==
    call # NoCall =>
        /\ Built
        /\ LoggerKept

\* C18 amended: a call builds at most one Logger; it builds exactly one
\* unless _send_multipart returns MultipartForm, which happens before the
\* Configurator is used.  Where a Logger is built, its target, level and
\* correlation id stay as built and the attached Logger has the same three.
C18_AtMostOneLogger ==
    call # NoCall =>
        /\ Count(events, "build") <= 1
        /\ Built <=> ~(call.entry = "_send_multipart" /\ ~call.form.multipart)
        /\ ~Built => /\ Done
                     /\ result = Err(MultipartForm)
                     /\ logger = NoLogger
                     /\ req.logger = NoLogger
        /\ Built => LoggerKept

C18_Witness ==
    /\ Done
    /\ Built
    /\ call.entry = "_send_json"
    /\ is_enabled(logger)
    /\ req.logger.payload = "json"
    /\ req.logger.request_id = logger.request_id
    /\ result.kind = "ok"

\* the request as it was when the call's Logger was built
RequestAtBuild == [req EXCEPT !.logger = NoLogger]

\* two results of build agree on target, level, correlation id and flag
SameBuild(b1, b2) ==
    /\ b1.logger.target = b2.logger.target
    /\ b1.logger.level = b2.logger.level
    /\ b1.logger.request_id = b2.logger.request_id
    /\ b1.require_headers = b2.require_headers

NoContentType ==
    /\ Parsing
    /\ Received
    /\ ~ErrorStatus
    /\ ReadableContentType = Absent

\* C20: for a non-error response without a content-type header, or with one
\* whose value is not readable as a string, send_and_parse calls the Text
\* decoder and no other; the call returns Text(body) for the body it read
\* and never UnsupportedContentType.
C20_DefaultsToText ==
    NoContentType =>
        /\ content_type = MimeText
        /\ Count(events, "parse_as_text") = 1
        /\ DecoderCalls(events) = 1
        /\ Done /\ body_read.ok => result = Ok(BodyText(body_read.text))
        /\ Done /\ result.kind = "err" => result.err.type = "DecodeResponse" /\ ~body_read.ok

C20_Witness ==
    /\ Done
    /\ NoContentType
    /\ wire.headers # <<>>
    /\ HeaderGet(wire.headers, CONTENT_TYPE) # NoHeader
    /\ result = Ok(BodyText(body_read.text))

(***************************************************************************)
(* The mock path, and the end of a call                                    *)
(***************************************************************************)
\* the mock handler of a send_and_parse call returned a body
MockAnswered == Parsing /\ Done /\ mock_ret # NoReturn /\ mock_ret.kind = "ok"

\* C21: on the mock path of send_and_parse the call returns the body the
\* mock produced, unchanged: the status is not classified, the content type
\* is not looked at, no decoder runs and no `__headers__` field is added,
\* so the result does not depend on require_headers.
C21_MockBodyUnchanged ==
    MockAnswered =>
        /\ result = Ok(mock_ret.value)
        /\ wire = NoResponse
        /\ content_type = NoMime
        /\ Count(events, "check_status") = 0
        /\ Count(events, "check_content_type") = 0
        /\ DecoderCalls(events) = 0
        /\ require_headers = call.config.require_headers

C21_Witness ==
    /\ MockAnswered
    /\ require_headers
    /\ mock_ret.value.variant = "Json"
    /\ mock_ret.value.json.kind = "object"
    /\ result = Ok(mock_ret.value)

\* the call has been issued
Called == call # NoCall

\* the call has one outcome once it is over and none before
OneOutcome ==
    IF Done THEN result.kind \in { "ok", "err" } ELSE result = NoResult

\* C22: when the mock handler, the network send and the body read each
\* complete in the end, every call terminates with one outcome, a body or
\* raw response or one error; it sends at most once and calls the mock
\* handler at most once, and never does both.
C22_Terminates ==
    /\ Called ~> Done
    /\ [](Called => /\ OneOutcome
                    /\ Count(events, "send") + Count(events, "mock_handle") <= 1
                    /\ Cardinality(LogErrorCalls(events)) <= 1)
    /\ [][Done => result' = result]_vars

C22_Witness ==
    /\ Done
    /\ Raw
    /\ Count(events, "send") = 1
    /\ Count(events, "mock_handle") = 0
    /\ result.kind = "ok"
    /\ result.value = wire

(***************************************************************************)
(* Properties of the configuration cell (specification CellSpec)           *)
(***************************************************************************)
RouteFailed(t) == tasks[t].route = "err"

\* C12: when the router fails while the request is built, the api call
\* returns an error and its send pipeline is never entered: no send macro
\* runs, so nothing is taken from the cell, no mock is checked and nothing
\* is sent.
C12_RouteErrorReturned ==
    \A t \in Tasks :
        RouteFailed(t) =>
            /\ tasks[t].pc = "done"
            /\ tasks[t].result = "err"
            /\ tasks[t].macro = Absent
            /\ tasks[t].taken = NotTaken
            /\ \A k \in takes : k.by # tasks[t].id

C12_Witness ==
    \E t \in Tasks : RouteFailed(t) /\ tasks[t].result = "err" /\ takes # {}

\* C13: the Configurator a call's send macro takes from REQ_CONFIG is the
\* one written for that same call, whatever the interleaving of the tasks
\* on the thread.
C13_OwnConfigurator ==
    \A k \in takes : k.owner = k.by

Taking == takes' # takes

PipelineEnds ==
    \E t \in Tasks : tasks[t].pc = "sending" /\ tasks'[t].pc = "done"

\* C14: a send macro's read of REQ_CONFIG leaves the default Configurator in
\* the cell; the end of a pipeline (success, failure or cancellation) does
\* not put anything back; and a Configurator that was read once is never
\* read by another call.
C14_TakeResets ==
    [][ /\ Taking => REQ_CONFIG' = DefaultConfig
        /\ PipelineEnds => REQ_CONFIG' = REQ_CONFIG
        /\ \A k \in takes' \ takes :
              k.owner # 0 => \A j \in takes : j.owner # k.owner ]_vars

C14_Witness ==
    /\ REQ_CONFIG = DefaultConfig
    /\ \E t \in Tasks : tasks[t].result = "cancelled" /\ tasks[t].taken.owner # 0
    /\ \E t \in Tasks : tasks[t].result \in { "ok", "err" } /\ tasks[t].taken.owner # 0
====
